---- MODULE Spec2Model ----
(***************************************************************************)
(* Healthcare roster management: the roster generator, the two storage     *)
(* implementations (InMemoryStorage, DatabaseStorage) and the HTTP routes  *)
(* that drive them.  Every request is applied to both storage              *)
(* implementations side by side, so each property can be read off for each *)
(* implementation from the same behaviour.                                 *)
(*                                                                         *)
(* Calendar dates are day numbers; day 0 is a Monday (2024-06-03).  A date *)
(* string "yyyy-MM-dd" is represented by the day number it denotes, and a  *)
(* shift id `${dateStr}-day` by the pair <<dateStr, "day">>.               *)
(***************************************************************************)
EXTENDS Integers, Sequences, FiniteSets, TLC

VARIABLES mem, db, clock, nextRosterId, nextSwapId, nextNotifId, last, pc, call,
          args, ret

vars == <<mem, db, clock, nextRosterId, nextSwapId, nextNotifId, last, pc, call,
          args, ret>>

NULL == "null"

\* ------------------------------------------------------------------ bounds
MaxClock == 4
MaxRosters == 2
MaxSwaps == 2
MaxWeeks == 1

\* ------------------------------------------------------------- shared/schema
STAFF_MEMBERS == <<"Ashley", "Peninah", "Joflix", "Locum">>

WEEKDAYS == <<"Mon", "Tue", "Wed", "Thu", "Fri", "Sat", "Sun">>

Includes(arr, x) == \E i \in DOMAIN arr : arr[i] = x

\* ------------------------------------------------------------------ date-fns
\* getDay: 0=Sun, 1=Mon, ..., 6=Sat (day 0 is a Monday)
getDay(date) == (date + 1) % 7

\* faulty variant: weeks start on Sunday (date-fns' default weekStartsOn: 0)
startOfWeek_Sunday(date) == date - getDay(date)

\* startOfWeek(date, { weekStartsOn: 1 }): the Monday on or before date
startOfWeek(date) == date - ((getDay(date) + 6) % 7)

addDays(date, n) == date + n

\* format(date, "EEE")
formatEEE(date) == WEEKDAYS[((getDay(date) + 6) % 7) + 1]

\* faulty variant: Sunday is open to all four staff
getAllowedStaff_SundayAll(date, shiftType) ==
    LET dayOfWeek == getDay(date) IN
    IF dayOfWeek = 6 /\ shiftType = "Day" THEN <<"Joflix">>
    ELSE IF dayOfWeek = 6 /\ shiftType = "Night" THEN <<"Ashley", "Peninah", "Locum">>
    ELSE <<"Ashley", "Peninah", "Joflix", "Locum">>

\* --------------------------------------------------------------- roster-utils
getAllowedStaff(date, shiftType) ==
    LET dayOfWeek == getDay(date) IN
    IF dayOfWeek = 6 /\ shiftType = "Day" THEN <<"Joflix">>
    ELSE IF dayOfWeek = 6 /\ shiftType = "Night" THEN <<"Ashley", "Peninah", "Locum">>
    ELSE IF dayOfWeek = 0 THEN <<"Ashley", "Peninah", "Locum">>
    ELSE <<"Ashley", "Peninah", "Joflix", "Locum">>

\* faulty variant: Friday goes to Joflix, after Wednesday and Thursday
getDefaultAssignment_FridayJoflix(date, shiftType, weekIndex) ==
    LET dayOfWeek == getDay(date) IN
    IF dayOfWeek = 6 /\ shiftType = "Day" THEN "Joflix"
    ELSE IF dayOfWeek = 6 /\ shiftType = "Night"
         THEN (IF weekIndex >= 3 THEN "Locum"
               ELSE IF weekIndex % 2 = 0 THEN "Ashley" ELSE "Peninah")
    ELSE IF dayOfWeek = 0 /\ shiftType = "Day"
         THEN (IF weekIndex % 2 = 0 THEN "Ashley" ELSE "Peninah")
    ELSE IF dayOfWeek = 0 /\ shiftType = "Night"
         THEN (IF weekIndex % 2 = 0 THEN "Peninah" ELSE "Ashley")
    ELSE IF dayOfWeek = 1 THEN "Ashley"
    ELSE IF dayOfWeek = 2 THEN "Peninah"
    ELSE IF dayOfWeek = 3 THEN "Joflix"
    ELSE IF dayOfWeek = 4 THEN "Joflix"
    ELSE IF dayOfWeek = 5 THEN "Joflix"
    ELSE NULL

\* faulty variant: Sunday Day goes to Joflix, whom Sunday excludes
getDefaultAssignment_SundayJoflix(date, shiftType, weekIndex) ==
    LET dayOfWeek == getDay(date) IN
    IF dayOfWeek = 6 /\ shiftType = "Day" THEN "Joflix"
    ELSE IF dayOfWeek = 6 /\ shiftType = "Night"
         THEN (IF weekIndex >= 3 THEN "Locum"
               ELSE IF weekIndex % 2 = 0 THEN "Ashley" ELSE "Peninah")
    ELSE IF dayOfWeek = 0 /\ shiftType = "Day" THEN "Joflix"
    ELSE IF dayOfWeek = 0 /\ shiftType = "Night"
         THEN (IF weekIndex % 2 = 0 THEN "Peninah" ELSE "Ashley")
    ELSE IF dayOfWeek = 1 THEN "Ashley"
    ELSE IF dayOfWeek = 2 THEN "Peninah"
    ELSE IF dayOfWeek = 3 THEN "Joflix"
    ELSE IF dayOfWeek = 4 THEN "Joflix"
    ELSE IF dayOfWeek = 5 THEN (IF weekIndex >= 3 THEN "Locum" ELSE "Peninah")
    ELSE NULL

\* faulty variant: the Locum cutover happens one week late (weekIndex > 3)
getDefaultAssignment_LateCutover(date, shiftType, weekIndex) ==
    LET dayOfWeek == getDay(date) IN
    IF dayOfWeek = 6 /\ shiftType = "Day" THEN "Joflix"
    ELSE IF dayOfWeek = 6 /\ shiftType = "Night"
         THEN (IF weekIndex > 3 THEN "Locum"
               ELSE IF weekIndex % 2 = 0 THEN "Ashley" ELSE "Peninah")
    ELSE IF dayOfWeek = 0 /\ shiftType = "Day"
         THEN (IF weekIndex % 2 = 0 THEN "Ashley" ELSE "Peninah")
    ELSE IF dayOfWeek = 0 /\ shiftType = "Night"
         THEN (IF weekIndex % 2 = 0 THEN "Peninah" ELSE "Ashley")
    ELSE IF dayOfWeek = 1 THEN "Ashley"
    ELSE IF dayOfWeek = 2 THEN "Peninah"
    ELSE IF dayOfWeek = 3 THEN "Joflix"
    ELSE IF dayOfWeek = 4 THEN "Joflix"
    ELSE IF dayOfWeek = 5 THEN (IF weekIndex > 3 THEN "Locum" ELSE "Peninah")
    ELSE NULL

getDefaultAssignment(date, shiftType, weekIndex) ==
    LET dayOfWeek == getDay(date) IN
    IF dayOfWeek = 6 /\ shiftType = "Day" THEN "Joflix"
    ELSE IF dayOfWeek = 6 /\ shiftType = "Night"
         THEN (IF weekIndex >= 3 THEN "Locum"
               ELSE IF weekIndex % 2 = 0 THEN "Ashley" ELSE "Peninah")
    ELSE IF dayOfWeek = 0 /\ shiftType = "Day"
         THEN (IF weekIndex % 2 = 0 THEN "Ashley" ELSE "Peninah")
    ELSE IF dayOfWeek = 0 /\ shiftType = "Night"
         THEN (IF weekIndex % 2 = 0 THEN "Peninah" ELSE "Ashley")
    ELSE IF dayOfWeek = 1 THEN "Ashley"
    ELSE IF dayOfWeek = 2 THEN "Peninah"
    ELSE IF dayOfWeek = 3 THEN "Joflix"
    ELSE IF dayOfWeek = 4 THEN "Joflix"
    ELSE IF dayOfWeek = 5 THEN (IF weekIndex >= 3 THEN "Locum" ELSE "Peninah")
    ELSE NULL

\* faulty variant: a weekend Night shift lasts 10 hours
getShiftHours_ShortNight(dayOfWeek, shiftType) ==
    IF dayOfWeek >= 1 /\ dayOfWeek <= 5 THEN 24
    ELSE IF shiftType = "Day" THEN 12
    ELSE IF shiftType = "Night" THEN 10
    ELSE 24

getShiftHours(dayOfWeek, shiftType) ==
    IF dayOfWeek >= 1 /\ dayOfWeek <= 5 THEN 24
    ELSE IF shiftType = "Day" THEN 12
    ELSE IF shiftType = "Night" THEN 12
    ELSE 24

\* one pushed RosterShift; suffix is the id's ending ("day", "night", "24h")
\* and shiftLabel `Day ${hours}h` is the pair <<"Day", hours>>
MakeShift(date, weekIndex, shiftType, suffix) ==
    LET hours == getShiftHours(getDay(date), shiftType) IN
    [id |-> <<date, suffix>>,
     date |-> date,
     weekday |-> formatEEE(date),
     shiftType |-> shiftType,
     shiftLabel |-> IF shiftType = "24h" THEN <<"24h">> ELSE <<shiftType, hours>>,
     hours |-> hours,
     assigned |-> getDefaultAssignment(date, shiftType, weekIndex),
     allowedStaff |-> getAllowedStaff(date, shiftType)]

\* faulty variant: the Night shift of a weekend day is pushed before its Day shift
ShiftsOfDay_NightFirst(adjustedStart, i) ==
    LET date == addDays(adjustedStart, i)
        dayOfWeek == getDay(date)
        weekIndex == i \div 7
    IN IF dayOfWeek = 6 \/ dayOfWeek = 0
       THEN <<MakeShift(date, weekIndex, "Night", "night"),
              MakeShift(date, weekIndex, "Day", "day")>>
       ELSE <<MakeShift(date, weekIndex, "24h", "24h")>>

\* the shifts pushed by iteration i of the loop
ShiftsOfDay(adjustedStart, i) ==
    LET date == addDays(adjustedStart, i)
        dayOfWeek == getDay(date)
        weekIndex == i \div 7
    IN IF dayOfWeek = 6 \/ dayOfWeek = 0
       THEN <<MakeShift(date, weekIndex, "Day", "day"),
              MakeShift(date, weekIndex, "Night", "night")>>
       ELSE <<MakeShift(date, weekIndex, "24h", "24h")>>

RECURSIVE GenLoop(_, _, _)
GenLoop(adjustedStart, i, totalDays) ==
    IF i >= totalDays THEN <<>>
    ELSE ShiftsOfDay(adjustedStart, i) \o GenLoop(adjustedStart, i + 1, totalDays)

\* faulty variant: the loop stops one day early
generateRosterShifts_OneDayShort(startDate, weeks) ==
    GenLoop(startOfWeek(startDate), 0, weeks * 7 - 1)

generateRosterShifts(startDate, weeks) ==
    GenLoop(startOfWeek(startDate), 0, weeks * 7)

\* ------------------------------------------------------------ InMemoryStorage
\* state: [rosters: Seq(Roster), swapRequests: Seq(...), notifications: Seq(...)]

\* Array.findIndex, 1-based; 0 when nothing matches (-1 in the source)
ShiftIndex(shifts, shiftId) ==
    IF \E i \in DOMAIN shifts : shifts[i].id = shiftId
    THEN CHOOSE i \in DOMAIN shifts :
            /\ shifts[i].id = shiftId
            /\ \A j \in 1..(i - 1) : shifts[j].id # shiftId
    ELSE 0

\* `for (const roster of this.rosters)`: the first roster holding the shift id
FirstRosterWith(rosters, shiftId) ==
    IF \E i \in DOMAIN rosters : ShiftIndex(rosters[i].shifts, shiftId) # 0
    THEN CHOOSE i \in DOMAIN rosters :
            /\ ShiftIndex(rosters[i].shifts, shiftId) # 0
            /\ \A j \in 1..(i - 1) : ShiftIndex(rosters[j].shifts, shiftId) = 0
    ELSE 0

\* a nullable result is a sequence of at most one element (<<>> is null)
MemGetActiveRoster(rosters) ==
    IF \E i \in DOMAIN rosters : rosters[i].isActive
    THEN <<rosters[CHOOSE i \in DOMAIN rosters :
            rosters[i].isActive /\ \A j \in 1..(i - 1) : ~rosters[j].isActive]>>
    ELSE <<>>

MemGetRosterById(rosters, id) ==
    IF \E i \in DOMAIN rosters : rosters[i].id = id
    THEN <<rosters[CHOOSE i \in DOMAIN rosters :
            rosters[i].id = id /\ \A j \in 1..(i - 1) : rosters[j].id # id]>>
    ELSE <<>>

MemSaveRoster(rosters, roster, now) ==
    LET deactivated == [i \in DOMAIN rosters |-> [rosters[i] EXCEPT !.isActive = FALSE]]
        newRoster == [id |-> roster.id, name |-> roster.name,
                      startDate |-> roster.startDate, endDate |-> roster.endDate,
                      weeks |-> roster.weeks, shifts |-> roster.shifts,
                      createdAt |-> now, updatedAt |-> now,
                      isActive |-> TRUE, version |-> roster.version]
        IdDiffers(r) == r.id # roster.id
    IN [rosters |-> Append(SelectSeq(deactivated, IdDiffers), newRoster),
        result |-> "ok"]

MemUpdateShift(rosters, shiftId, assigned, now) ==
    LET ri == FirstRosterWith(rosters, shiftId) IN
    IF ri = 0 THEN [rosters |-> rosters, result |-> "null"]
    ELSE LET si == ShiftIndex(rosters[ri].shifts, shiftId)
             shift == rosters[ri].shifts[si]
         IN IF assigned # NULL /\ ~Includes(shift.allowedStaff, assigned)
            THEN [rosters |-> rosters, result |-> "not_allowed"]
            ELSE [rosters |-> [rosters EXCEPT ![ri].shifts[si].assigned = assigned,
                                              ![ri].updatedAt = now],
                  result |-> "ok"]


\* faulty variant: activates the roster without deactivating the others
MemSetActiveRoster_KeepOthers(rosters, rosterId) ==
    [i \in DOMAIN rosters |->
        [rosters[i] EXCEPT !.isActive = (@ \/ rosters[i].id = rosterId)]]

MemSetActiveRoster(rosters, rosterId) ==
    [i \in DOMAIN rosters |-> [rosters[i] EXCEPT !.isActive = (rosters[i].id = rosterId)]]

\* faulty variant: after the removal the last remaining roster is made active
MemDeleteRoster_ActivateLast(rosters, rosterId) ==
    LET IdDiffers(r) == r.id # rosterId
        kept == SelectSeq(rosters, IdDiffers)
    IN [i \in DOMAIN kept |-> [kept[i] EXCEPT !.isActive = (i = Len(kept))]]

MemDeleteRoster(rosters, rosterId) ==
    LET Keep(r) == r.id # rosterId IN SelectSeq(rosters, Keep)

MemCreateSwapRequest(m, shiftId, fromStaff, toStaff, id, now) ==
    LET ri == FirstRosterWith(m.rosters, shiftId) IN
    IF ri = 0 THEN [mem |-> m, result |-> "shift_not_found"]
    ELSE LET foundShift == m.rosters[ri].shifts[ShiftIndex(m.rosters[ri].shifts, shiftId)]
             req == [id |-> id, shiftId |-> shiftId,
                     shiftDate |-> foundShift.date, shiftType |-> foundShift.shiftType,
                     fromStaff |-> fromStaff, toStaff |-> toStaff,
                     status |-> "pending", reason |-> NULL,
                     createdAt |-> now, respondedAt |-> <<>>]
         IN [mem |-> [m EXCEPT !.swapRequests = Append(@, req)], result |-> "ok"]

\* Array.findIndex on swapRequests, 1-based; 0 when nothing matches
RequestIndex(requests, requestId) ==
    IF \E i \in DOMAIN requests : requests[i].id = requestId
    THEN CHOOSE i \in DOMAIN requests :
            requests[i].id = requestId /\ \A j \in 1..(i - 1) : requests[j].id # requestId
    ELSE 0

MemRespondToSwapRequest(m, requestId, status, now) ==
    LET idx == RequestIndex(m.swapRequests, requestId) IN
    IF idx = 0 THEN [mem |-> m, result |-> "null"]
    ELSE LET req == m.swapRequests[idx]
             updated == [m EXCEPT !.swapRequests[idx].status = status,
                                  !.swapRequests[idx].respondedAt = <<now>>]
             ri == FirstRosterWith(m.rosters, req.shiftId)
         IN IF status = "approved" /\ ri # 0
            THEN LET si == ShiftIndex(m.rosters[ri].shifts, req.shiftId)
                 IN [mem |-> [updated EXCEPT !.rosters[ri].shifts[si].assigned = req.toStaff,
                                             !.rosters[ri].updatedAt = now],
                     result |-> "ok"]
            ELSE [mem |-> updated, result |-> "ok"]

MemCreateNotification(m, staffMember, type, relatedShiftId, relatedSwapId, id, now) ==
    [m EXCEPT !.notifications =
        Append(@, [id |-> id, staffMember |-> staffMember, type |-> type,
                   read |-> FALSE, createdAt |-> now,
                   relatedShiftId |-> relatedShiftId, relatedSwapId |-> relatedSwapId])]

\* ------------------------------------------------------------ DatabaseStorage
\* state: [rosters, shifts, swapRequests, notifications], each table a set of rows

\* db.update(rosters).set({ isActive: false })
DbDeactivateAll(rosters) == {[r EXCEPT !.isActive = FALSE] : r \in rosters}

\* db.update(rosters).set({ isActive: true }).where(eq(rosters.id, rosterId))
DbActivate(rosters, rosterId) ==
    {IF r.id = rosterId THEN [r EXCEPT !.isActive = TRUE] ELSE r : r \in rosters}

\* the rosters row of saveRoster's insert
DbRosterRow(roster, now) ==
    [id |-> roster.id, name |-> roster.name,
     startDate |-> roster.startDate, endDate |-> roster.endDate,
     weeks |-> roster.weeks, createdAt |-> now, updatedAt |-> now,
     isActive |-> TRUE, version |-> roster.version]

\* the shifts rows of saveRoster's insert
DbShiftRows(roster) ==
    {[id |-> roster.shifts[i].id, rosterId |-> roster.id,
      date |-> roster.shifts[i].date, weekday |-> roster.shifts[i].weekday,
      shiftType |-> roster.shifts[i].shiftType,
      shiftLabel |-> roster.shifts[i].shiftLabel,
      hours |-> roster.shifts[i].hours, assigned |-> roster.shifts[i].assigned,
      allowedStaff |-> roster.shifts[i].allowedStaff] : i \in DOMAIN roster.shifts}

\* an INSERT violates the primary key (id) of the table
PkConflict(table, rows) ==
    \/ \E r \in rows : \E t \in table : t.id = r.id
    \/ \E r1, r2 \in rows : r1 # r2 /\ r1.id = r2.id

\* the three statements of saveRoster run one after the other with no
\* transaction: a failing shifts INSERT leaves the first two in place
DbSaveRoster(d, roster, now) ==
    LET deactivated == DbDeactivateAll(d.rosters)
        rows == DbShiftRows(roster)
    IN IF PkConflict(deactivated, {DbRosterRow(roster, now)})
       THEN [db |-> [d EXCEPT !.rosters = deactivated], result |-> "error"]
       ELSE LET withRoster == [d EXCEPT !.rosters = deactivated \cup {DbRosterRow(roster, now)}]
            IN IF Len(roster.shifts) > 0 /\ PkConflict(d.shifts, rows)
               THEN [db |-> withRoster, result |-> "error"]
               ELSE [db |-> [withRoster EXCEPT !.shifts = @ \cup rows], result |-> "ok"]

\* select().from(shifts).where(eq(shifts.id, shiftId)).limit(1)
DbShiftById(shifts, shiftId) == {s \in shifts : s.id = shiftId}


\* faulty variant: writes the assignment first and validates afterwards
DbUpdateShift_WriteBeforeValidate(d, shiftId, assigned, now) ==
    IF DbShiftById(d.shifts, shiftId) = {} THEN [db |-> d, result |-> "null"]
    ELSE LET shift == CHOOSE s \in DbShiftById(d.shifts, shiftId) : TRUE
             written == [d EXCEPT
                  !.shifts = {IF s.id = shiftId THEN [s EXCEPT !.assigned = assigned] ELSE s
                              : s \in d.shifts},
                  !.rosters = {IF r.id = shift.rosterId THEN [r EXCEPT !.updatedAt = now] ELSE r
                               : r \in d.rosters}]
         IN IF assigned # NULL /\ ~Includes(shift.allowedStaff, assigned)
            THEN [db |-> written, result |-> "not_allowed"]
            ELSE [db |-> written, result |-> "ok"]

DbUpdateShift(d, shiftId, assigned, now) ==
    IF DbShiftById(d.shifts, shiftId) = {} THEN [db |-> d, result |-> "null"]
    ELSE LET shift == CHOOSE s \in DbShiftById(d.shifts, shiftId) : TRUE IN
         IF assigned # NULL /\ ~Includes(shift.allowedStaff, assigned)
         THEN [db |-> d, result |-> "not_allowed"]
         ELSE [db |-> [d EXCEPT
                  !.shifts = {IF s.id = shiftId THEN [s EXCEPT !.assigned = assigned] ELSE s
                              : s \in d.shifts},
                  !.rosters = {IF r.id = shift.rosterId THEN [r EXCEPT !.updatedAt = now] ELSE r
                               : r \in d.rosters}],
               result |-> "ok"]

DbSetActiveRoster(rosters, rosterId) == DbActivate(DbDeactivateAll(rosters), rosterId)

\* shifts reference rosters and swap_requests reference shifts, both
\* onDelete: "cascade" (shared/schema.ts)

\* faulty variant: deletes the roster row without the cascade to its shifts
DbDeleteRoster_NoCascade(d, rosterId) ==
    [d EXCEPT !.rosters = {r \in @ : r.id # rosterId}]

DbDeleteRoster(d, rosterId) ==
    LET gone == {s.id : s \in {x \in d.shifts : x.rosterId = rosterId}} IN
    [d EXCEPT !.rosters = {r \in @ : r.id # rosterId},
              !.shifts = {s \in @ : s.rosterId # rosterId},
              !.swapRequests = {q \in @ : q.shiftId \notin gone}]

DbCreateSwapRequest(d, shiftId, fromStaff, toStaff, id, now) ==
    IF DbShiftById(d.shifts, shiftId) = {} THEN [db |-> d, result |-> "shift_not_found"]
    ELSE [db |-> [d EXCEPT !.swapRequests = @ \cup
                     {[id |-> id, shiftId |-> shiftId, fromStaff |-> fromStaff,
                       toStaff |-> toStaff, status |-> "pending", reason |-> NULL,
                       createdAt |-> now, respondedAt |-> <<>>]}],
          result |-> "ok"]


\* faulty variant: updates the shift whatever the response is
DbRespondToSwapRequest_AssignAlways(d, requestId, status, now) ==
    IF {q \in d.swapRequests : q.id = requestId} = {} THEN [db |-> d, result |-> "null"]
    ELSE LET request == CHOOSE q \in d.swapRequests : q.id = requestId
             responded == {IF q.id = requestId
                           THEN [q EXCEPT !.status = status, !.respondedAt = <<now>>]
                           ELSE q : q \in d.swapRequests}
         IN [db |-> [d EXCEPT
                 !.swapRequests = responded,
                 !.shifts = {IF s.id = request.shiftId
                             THEN [s EXCEPT !.assigned = request.toStaff] ELSE s : s \in @}],
             result |-> "ok"]

DbRespondToSwapRequest(d, requestId, status, now) ==
    IF {q \in d.swapRequests : q.id = requestId} = {} THEN [db |-> d, result |-> "null"]
    ELSE LET request == CHOOSE q \in d.swapRequests : q.id = requestId
             responded == {IF q.id = requestId
                           THEN [q EXCEPT !.status = status, !.respondedAt = <<now>>]
                           ELSE q : q \in d.swapRequests}
         IN [db |-> [d EXCEPT
                 !.swapRequests = responded,
                 !.shifts = IF status = "approved"
                            THEN {IF s.id = request.shiftId
                                  THEN [s EXCEPT !.assigned = request.toStaff] ELSE s : s \in @}
                            ELSE @],
             result |-> "ok"]

DbCreateNotification(d, staffMember, type, relatedShiftId, relatedSwapId, id, now) ==
    [d EXCEPT !.notifications = @ \cup
        {[id |-> id, staffMember |-> staffMember, type |-> type,
          read |-> FALSE, createdAt |-> now,
          relatedShiftId |-> relatedShiftId, relatedSwapId |-> relatedSwapId]}]

\* --------------------------------------------------------------------- inputs
\* a Monday, and the Wednesday of the week after it
StartDates == {0, 9}
Weeks == 1..MaxWeeks
\* Monday 24h and Saturday Day of week 0, and an id no roster ever holds
ShiftIdInputs == {<<0, "24h">>, <<5, "day">>, <<0, "day">>}
AssignInputs == {"Ashley", "Joflix", NULL}
SwapStaffInputs == {<<"Joflix", "Ashley">>, <<"Ashley", "Joflix">>}
RosterIdInputs == 1..(MaxRosters + 1)
RequestIdInputs == 1..(MaxSwaps + 1)
Procs == {1, 2}

NoShiftId == <<0, "">>
\* a process that serves no storage call
NoCall == [op |-> "none", id |-> 0, startDate |-> 0, weeks |-> 0, now |-> 0]

\* no call of a library function (roster-utils) is being evaluated
NoArgs == [fn |-> "none"]

\* the last request, its arguments, and the answer of each implementation
Last(op, id, shiftId, value, memStatus, memResult, dbStatus, dbResult) ==
    [op |-> op, id |-> id, shiftId |-> shiftId, value |-> value,
     mem |-> [status |-> memStatus, result |-> memResult],
     db |-> [status |-> dbStatus, result |-> dbResult]]

\* ---------------------------------------------------------------------- state
Init ==
    /\ mem = [rosters |-> <<>>, swapRequests |-> <<>>, notifications |-> <<>>]
    /\ db = [rosters |-> {}, shifts |-> {}, swapRequests |-> {}, notifications |-> {}]
    /\ clock = 0
    /\ nextRosterId = 1
    /\ nextSwapId = 1
    /\ nextNotifId = 1
    /\ last = Last("init", 0, NoShiftId, NULL, 0, "", 0, "")
    /\ pc = [p \in Procs |-> "idle"]
    /\ call = [p \in Procs |-> NoCall]
    /\ args = NoArgs
    /\ ret = <<>>

\* --------------------------------------------------------------------- routes
\* the roster object POST /api/roster/generate hands to storage.saveRoster
RouteRoster(id, startDate, weeks) ==
    LET endDate == addDays(startDate, weeks * 7 - 1) IN
    [id |-> id, name |-> <<"Roster", startDate, endDate>>,
     startDate |-> startDate, endDate |-> endDate, weeks |-> weeks,
     shifts |-> generateRosterShifts(startDate, weeks),
     version |-> 1, isActive |-> TRUE]

\* POST /api/roster/generate
Generate(startDate, weeks) ==
    /\ clock < MaxClock
    /\ nextRosterId <= MaxRosters
    /\ LET now == clock + 1
           roster == RouteRoster(nextRosterId, startDate, weeks)
           m == MemSaveRoster(mem.rosters, roster, now)
           d == DbSaveRoster(db, roster, now)
       IN /\ mem' = [mem EXCEPT !.rosters = m.rosters]
          /\ db' = d.db
          /\ last' = Last("generate", nextRosterId, NoShiftId, NULL,
                          200, m.result,
                          IF d.result = "ok" THEN 200 ELSE 500, d.result)
    /\ clock' = clock + 1
    /\ nextRosterId' = nextRosterId + 1
    /\ UNCHANGED <<nextSwapId, nextNotifId, pc, call, args, ret>>

\* the status PATCH /api/roster/shift answers with
UpdateStatus(result) ==
    IF result = "null" THEN 404 ELSE IF result = "not_allowed" THEN 400 ELSE 200

\* PATCH /api/roster/shift
UpdateShift(shiftId, assigned) ==
    /\ clock < MaxClock
    /\ LET now == clock + 1
           m == MemUpdateShift(mem.rosters, shiftId, assigned, now)
           d == DbUpdateShift(db, shiftId, assigned, now)
       IN /\ mem' = [mem EXCEPT !.rosters = m.rosters]
          /\ db' = d.db
          /\ last' = Last("updateShift", 0, shiftId, assigned,
                          UpdateStatus(m.result), m.result,
                          UpdateStatus(d.result), d.result)
    /\ clock' = clock + 1
    /\ UNCHANGED <<nextRosterId, nextSwapId, nextNotifId, pc, call, args, ret>>

\* POST /api/roster/:id/activate
Activate(rosterId) ==
    /\ clock < MaxClock
    /\ mem' = [mem EXCEPT !.rosters = MemSetActiveRoster(@, rosterId)]
    /\ db' = [db EXCEPT !.rosters = DbSetActiveRoster(@, rosterId)]
    /\ last' = Last("setActiveRoster", rosterId, NoShiftId, NULL, 200, "ok", 200, "ok")
    /\ clock' = clock + 1
    /\ UNCHANGED <<nextRosterId, nextSwapId, nextNotifId, pc, call, args, ret>>

\* DELETE /api/roster/:id
Delete(rosterId) ==
    /\ clock < MaxClock
    /\ mem' = [mem EXCEPT !.rosters = MemDeleteRoster(@, rosterId)]
    /\ db' = DbDeleteRoster(db, rosterId)
    /\ last' = Last("deleteRoster", rosterId, NoShiftId, NULL, 200, "ok", 200, "ok")
    /\ clock' = clock + 1
    /\ UNCHANGED <<nextRosterId, nextSwapId, nextNotifId, pc, call, args, ret>>

\* POST /api/swap-requests
CreateSwap(shiftId, fromStaff, toStaff) ==
    /\ clock < MaxClock
    /\ nextSwapId <= MaxSwaps
    /\ LET now == clock + 1
           m == MemCreateSwapRequest(mem, shiftId, fromStaff, toStaff, nextSwapId, now)
           d == DbCreateSwapRequest(db, shiftId, fromStaff, toStaff, nextSwapId, now)
       IN /\ mem' = IF m.result = "ok"
                    THEN MemCreateNotification(m.mem, toStaff, "swap_request",
                                               shiftId, nextSwapId, nextNotifId, now)
                    ELSE m.mem
          /\ db' = IF d.result = "ok"
                   THEN DbCreateNotification(d.db, toStaff, "swap_request",
                                             shiftId, nextSwapId, nextNotifId, now)
                   ELSE d.db
          /\ last' = Last("createSwapRequest", nextSwapId, shiftId, toStaff,
                          IF m.result = "ok" THEN 200 ELSE 500, m.result,
                          IF d.result = "ok" THEN 200 ELSE 500, d.result)
    /\ clock' = clock + 1
    /\ nextSwapId' = nextSwapId + 1
    /\ nextNotifId' = nextNotifId + 1
    /\ UNCHANGED <<nextRosterId, pc, call, args, ret>>

\* POST /api/swap-requests/:id/respond
Respond(requestId, status) ==
    /\ clock < MaxClock
    /\ LET now == clock + 1
           m == MemRespondToSwapRequest(mem, requestId, status, now)
           d == DbRespondToSwapRequest(db, requestId, status, now)
       IN /\ mem' = IF m.result = "ok"
                    THEN LET q == m.mem.swapRequests[RequestIndex(m.mem.swapRequests, requestId)]
                         IN MemCreateNotification(m.mem, q.fromStaff, "swap_response",
                                                  q.shiftId, q.id, nextNotifId, now)
                    ELSE m.mem
          /\ db' = IF d.result = "ok"
                   THEN LET q == CHOOSE x \in d.db.swapRequests : x.id = requestId
                        IN DbCreateNotification(d.db, q.fromStaff, "swap_response",
                                                q.shiftId, q.id, nextNotifId, now)
                   ELSE d.db
          /\ last' = Last("respondToSwapRequest", requestId, NoShiftId, status,
                          IF m.result = "ok" THEN 200 ELSE 404, m.result,
                          IF d.result = "ok" THEN 200 ELSE 404, d.result)
    /\ clock' = clock + 1
    /\ nextNotifId' = nextNotifId + 1
    /\ UNCHANGED <<nextRosterId, nextSwapId, pc, call, args, ret>>

Next ==
    \/ \E startDate \in StartDates, weeks \in Weeks : Generate(startDate, weeks)
    \/ \E shiftId \in ShiftIdInputs, assigned \in AssignInputs : UpdateShift(shiftId, assigned)
    \/ \E rosterId \in RosterIdInputs : Activate(rosterId)
    \/ \E rosterId \in RosterIdInputs : Delete(rosterId)
    \/ \E shiftId \in ShiftIdInputs, p \in SwapStaffInputs : CreateSwap(shiftId, p[1], p[2])
    \/ \E requestId \in RequestIdInputs, status \in {"approved", "rejected"} :
          Respond(requestId, status)

Spec == Init /\ [][Next]_vars

\* ------------------------------------------ DatabaseStorage, concurrent calls
\* Two requests are served at once: every `await this.db...` statement of
\* setActiveRoster and saveRoster is one step, and the statements of the two
\* calls interleave.  The start state is the database after two rosters were
\* generated one after the other.
ConcStartDates == {7, 14}

InitConc ==
    LET r1 == RouteRoster(1, 0, 1)
        r2 == RouteRoster(2, 7, 1)
        d0 == [rosters |-> {}, shifts |-> {}, swapRequests |-> {}, notifications |-> {}]
    IN /\ mem = [rosters |-> MemSaveRoster(MemSaveRoster(<<>>, r1, 1).rosters, r2, 2).rosters,
                 swapRequests |-> <<>>, notifications |-> <<>>]
       /\ db = DbSaveRoster(DbSaveRoster(d0, r1, 1).db, r2, 2).db
       /\ clock = 2
       /\ nextRosterId = 3
       /\ nextSwapId = 1
       /\ nextNotifId = 1
       /\ last = Last("generate", 2, NoShiftId, NULL, 200, "ok", 200, "ok")
       /\ pc = [p \in Procs |-> "idle"]
       /\ call = [p \in Procs |-> NoCall]
       /\ args = NoArgs
       /\ ret = <<>>

\* a request enters DatabaseStorage.setActiveRoster(rosterId)
BeginSetActive(p, rosterId) ==
    /\ pc[p] = "idle"
    /\ call' = [call EXCEPT ![p] = [op |-> "setActiveRoster", id |-> rosterId,
                                    startDate |-> 0, weeks |-> 0, now |-> clock]]
    /\ pc' = [pc EXCEPT ![p] = "deactivate"]
    /\ UNCHANGED <<mem, db, clock, nextRosterId, nextSwapId, nextNotifId, last, args, ret>>

\* a request enters DatabaseStorage.saveRoster (rosterId = randomUUID(), now = new Date())
BeginSave(p, startDate, weeks) ==
    /\ pc[p] = "idle"
    /\ call' = [call EXCEPT ![p] = [op |-> "saveRoster", id |-> nextRosterId,
                                    startDate |-> startDate, weeks |-> weeks,
                                    now |-> clock + 1]]
    /\ pc' = [pc EXCEPT ![p] = "deactivate"]
    /\ nextRosterId' = nextRosterId + 1
    /\ clock' = clock + 1
    /\ UNCHANGED <<mem, db, nextSwapId, nextNotifId, last, args, ret>>

\* await db.update(rosters).set({ isActive: false })
StepDeactivate(p) ==
    /\ pc[p] = "deactivate"
    /\ db' = [db EXCEPT !.rosters = DbDeactivateAll(@)]
    /\ pc' = [pc EXCEPT ![p] = IF call[p].op = "setActiveRoster"
                               THEN "activate" ELSE "insertRoster"]
    /\ UNCHANGED <<mem, clock, nextRosterId, nextSwapId, nextNotifId, last, call, args, ret>>

\* await db.update(rosters).set({ isActive: true }).where(eq(rosters.id, rosterId))
StepActivate(p) ==
    /\ pc[p] = "activate"
    /\ db' = [db EXCEPT !.rosters = DbActivate(@, call[p].id)]
    /\ pc' = [pc EXCEPT ![p] = "done"]
    /\ UNCHANGED <<mem, clock, nextRosterId, nextSwapId, nextNotifId, last, call, args, ret>>

\* await db.insert(rosters).values({ ..., isActive: true })
StepInsertRoster(p) ==
    /\ pc[p] = "insertRoster"
    /\ LET row == DbRosterRow(RouteRoster(call[p].id, call[p].startDate, call[p].weeks),
                              call[p].now)
       IN IF PkConflict(db.rosters, {row})
          THEN db' = db /\ pc' = [pc EXCEPT ![p] = "failed"]
          ELSE /\ db' = [db EXCEPT !.rosters = @ \cup {row}]
               /\ pc' = [pc EXCEPT ![p] = "insertShifts"]
    /\ UNCHANGED <<mem, clock, nextRosterId, nextSwapId, nextNotifId, last, call, args, ret>>

\* await db.insert(shifts).values(...)
StepInsertShifts(p) ==
    /\ pc[p] = "insertShifts"
    /\ LET roster == RouteRoster(call[p].id, call[p].startDate, call[p].weeks)
           rows == DbShiftRows(roster)
       IN IF Len(roster.shifts) > 0 /\ PkConflict(db.shifts, rows)
          THEN db' = db /\ pc' = [pc EXCEPT ![p] = "failed"]
          ELSE /\ db' = [db EXCEPT !.shifts = @ \cup rows]
               /\ pc' = [pc EXCEPT ![p] = "done"]
    /\ UNCHANGED <<mem, clock, nextRosterId, nextSwapId, nextNotifId, last, call, args, ret>>

NextConc ==
    \E p \in Procs :
        \/ \E rosterId \in RosterIdInputs : BeginSetActive(p, rosterId)
        \/ \E startDate \in ConcStartDates, weeks \in Weeks : BeginSave(p, startDate, weeks)
        \/ StepDeactivate(p)
        \/ StepActivate(p)
        \/ StepInsertRoster(p)
        \/ StepInsertShifts(p)

SpecConc == InitConc /\ [][NextConc]_vars


\* --------------------------------------------- what each implementation stores
\* getRosterById over every stored roster: the roster rows without their shifts
MemRosterRows(m) ==
    {[id |-> m.rosters[i].id, name |-> m.rosters[i].name,
      startDate |-> m.rosters[i].startDate, endDate |-> m.rosters[i].endDate,
      weeks |-> m.rosters[i].weeks, createdAt |-> m.rosters[i].createdAt,
      updatedAt |-> m.rosters[i].updatedAt, isActive |-> m.rosters[i].isActive,
      version |-> m.rosters[i].version] : i \in DOMAIN m.rosters}

\* every stored shift, tagged with the roster that owns it
MemShiftRows(m) ==
    UNION {DbShiftRows(m.rosters[i]) : i \in DOMAIN m.rosters}

\* getSwapRequests(): every stored request
MemRequestRows(m) ==
    {[id |-> m.swapRequests[i].id, shiftId |-> m.swapRequests[i].shiftId,
      fromStaff |-> m.swapRequests[i].fromStaff, toStaff |-> m.swapRequests[i].toStaff,
      status |-> m.swapRequests[i].status, reason |-> m.swapRequests[i].reason,
      createdAt |-> m.swapRequests[i].createdAt,
      respondedAt |-> m.swapRequests[i].respondedAt] : i \in DOMAIN m.swapRequests}

\* the two implementations seen through the same three tables
MemView(m) == [rosters |-> MemRosterRows(m), shifts |-> MemShiftRows(m),
               swapRequests |-> MemRequestRows(m)]
DbView(d) == [rosters |-> d.rosters, shifts |-> d.shifts, swapRequests |-> d.swapRequests]

ActiveIds(view) == {r.id : r \in {x \in view.rosters : x.isActive}}
RosterIds(view) == {r.id : r \in view.rosters}
ShiftsOf(view, rosterId) == {s \in view.shifts : s.rosterId = rosterId}

\* ------------------------------------------- roster-utils: calculateStaffHours

\* the callback of shifts.forEach(...), applied to one shift
AddShift(hoursMap, shift) ==
    IF shift.assigned # NULL
    THEN LET current == hoursMap[shift.assigned] IN
         [hoursMap EXCEPT ![shift.assigned] =
             [hours |-> current.hours + shift.hours,
              count |-> current.count + 1]]
    ELSE hoursMap

\* two hoursMaps added entry by entry
AddMaps(a, b) ==
    [s \in DOMAIN a |-> [hours |-> a[s].hours + b[s].hours,
                         count |-> a[s].count + b[s].count]]

\* what shifts.forEach(...) adds to a hoursMap over positions lo..hi.  The
\* callback only adds to the entry of the shift's assignee, so the additions
\* of the two halves of a range are summed separately and then added up.
RECURSIVE FoldHours(_, _, _, _)
FoldHours(shifts, lo, hi, zero) ==
    IF lo > hi THEN zero
    ELSE IF lo = hi THEN AddShift(zero, shifts[lo])
    ELSE LET mid == (lo + hi) \div 2 IN
         AddMaps(FoldHours(shifts, lo, mid, zero), FoldHours(shifts, mid + 1, hi, zero))

\* shifts.forEach(...): the hoursMap after the shifts from position i on
SumHours(shifts, i, hoursMap) ==
    LET zero == [s \in DOMAIN hoursMap |-> [hours |-> 0, count |-> 0]] IN
    AddMaps(hoursMap, FoldHours(shifts, i, Len(shifts), zero))

\* faulty variant: every assigned shift is counted as 24 hours
calculateStaffHours_FlatDay(shifts) ==
    LET staff == {STAFF_MEMBERS[i] : i \in DOMAIN STAFF_MEMBERS}
        hoursMap == SumHours(shifts, 1, [s \in staff |-> [hours |-> 0, count |-> 0]])
    IN [i \in DOMAIN STAFF_MEMBERS |->
           [name |-> STAFF_MEMBERS[i],
            totalHours |-> 24 * hoursMap[STAFF_MEMBERS[i]].count,
            shiftCount |-> hoursMap[STAFF_MEMBERS[i]].count]]

\* faulty variant: staff without an assigned shift are left out of the summary
calculateStaffHours_OnlyWorking(shifts) ==
    LET staff == {STAFF_MEMBERS[i] : i \in DOMAIN STAFF_MEMBERS}
        hoursMap == SumHours(shifts, 1, [s \in staff |-> [hours |-> 0, count |-> 0]])
        Working(name) == hoursMap[name].count > 0
        names == SelectSeq(STAFF_MEMBERS, Working)
    IN [i \in DOMAIN names |->
           [name |-> names[i],
            totalHours |-> hoursMap[names[i]].hours,
            shiftCount |-> hoursMap[names[i]].count]]

calculateStaffHours(shifts) ==
    LET staff == {STAFF_MEMBERS[i] : i \in DOMAIN STAFF_MEMBERS}
        hoursMap == SumHours(shifts, 1, [s \in staff |-> [hours |-> 0, count |-> 0]])
    IN [i \in DOMAIN STAFF_MEMBERS |->
           [name |-> STAFF_MEMBERS[i],
            totalHours |-> hoursMap[STAFF_MEMBERS[i]].hours,
            shiftCount |-> hoursMap[STAFF_MEMBERS[i]].count]]

\* ------------------------------------------- roster-comparison.tsx: the diffs
\* the Map key `${shift.date}-${shift.shiftType}`
ShiftKey(shift) == <<shift.date, shift.shiftType>>

\* the keys of a Map filled by shifts.forEach(... map.set(key, shift)), in
\* insertion order; also `new Set([...])` of a key list
RECURSIVE Distinct(_)
Distinct(keys) ==
    IF keys = <<>> THEN <<>>
    ELSE LET init == Distinct(SubSeq(keys, 1, Len(keys) - 1))
             key == keys[Len(keys)]
         IN IF Includes(init, key) THEN init ELSE Append(init, key)

MapKeys(shifts) == Distinct([i \in DOMAIN shifts |-> ShiftKey(shifts[i])])

\* map.get(key): the shift set last under the key; <<>> is undefined
MapGet(shifts, key) ==
    IF \E i \in DOMAIN shifts : ShiftKey(shifts[i]) = key
    THEN <<shifts[CHOOSE i \in DOMAIN shifts :
              /\ ShiftKey(shifts[i]) = key
              /\ \A j \in (i + 1)..Len(shifts) : ShiftKey(shifts[j]) # key]>>
    ELSE <<>>

\* faulty variant: a shift nobody holds on either side counts as a change
DiffOfKey_UnassignedDiffers(leftShifts, rightShifts, key) ==
    LET leftShift == MapGet(leftShifts, key)
        rightShift == MapGet(rightShifts, key)
        leftAssigned == IF leftShift # <<>> THEN leftShift[1].assigned ELSE NULL
        rightAssigned == IF rightShift # <<>> THEN rightShift[1].assigned ELSE NULL
        shift == IF leftShift # <<>> THEN leftShift[1] ELSE rightShift[1]
    IN [shiftId |-> shift.id, date |-> shift.date, weekday |-> shift.weekday,
        shiftType |-> shift.shiftType,
        leftAssigned |-> leftAssigned, rightAssigned |-> rightAssigned,
        isDifferent |-> leftAssigned # rightAssigned \/ leftAssigned = NULL]

\* the record pushed for one key of allKeys
DiffOfKey(leftShifts, rightShifts, key) ==
    LET leftShift == MapGet(leftShifts, key)
        rightShift == MapGet(rightShifts, key)
        leftAssigned == IF leftShift # <<>> THEN leftShift[1].assigned ELSE NULL
        rightAssigned == IF rightShift # <<>> THEN rightShift[1].assigned ELSE NULL
        shift == IF leftShift # <<>> THEN leftShift[1] ELSE rightShift[1]
    IN [shiftId |-> shift.id, date |-> shift.date, weekday |-> shift.weekday,
        shiftType |-> shift.shiftType,
        leftAssigned |-> leftAssigned, rightAssigned |-> rightAssigned,
        isDifferent |-> leftAssigned # rightAssigned]

\* "24h".localeCompare("Day") < 0 and "Day".localeCompare("Night") < 0
TypeRank(shiftType) ==
    IF shiftType = "24h" THEN 0 ELSE IF shiftType = "Day" THEN 1 ELSE 2

\* a.date.localeCompare(b.date) || a.shiftType.localeCompare(b.shiftType) > 0
ComesAfter(a, b) ==
    \/ a.date > b.date
    \/ a.date = b.date /\ TypeRank(a.shiftType) > TypeRank(b.shiftType)

\* results.sort(...): a stable sort, as an insertion sort
RECURSIVE SortDiffs(_)
SortDiffs(results) ==
    IF results = <<>> THEN <<>>
    ELSE LET init == SortDiffs(SubSeq(results, 1, Len(results) - 1))
             x == results[Len(results)]
             NotAfterX(y) == ~ComesAfter(y, x)
             AfterX(y) == ComesAfter(y, x)
         IN SelectSeq(init, NotAfterX) \o <<x>> \o SelectSeq(init, AfterX)

\* faulty variant: the keys that only the right roster has are dropped
diffs_LeftKeysOnly(leftRoster, rightRoster) ==
    IF leftRoster = <<>> \/ rightRoster = <<>> THEN <<>>
    ELSE LET leftShifts == leftRoster[1].shifts
             rightShifts == rightRoster[1].shifts
             allKeys == MapKeys(leftShifts)
         IN SortDiffs([i \in DOMAIN allKeys |->
                          DiffOfKey(leftShifts, rightShifts, allKeys[i])])

\* the diffs memo; a roster that is not loaded (null) is <<>>
diffs(leftRoster, rightRoster) ==
    IF leftRoster = <<>> \/ rightRoster = <<>> THEN <<>>
    ELSE LET leftShifts == leftRoster[1].shifts
             rightShifts == rightRoster[1].shifts
             allKeys == Distinct(MapKeys(leftShifts) \o MapKeys(rightShifts))
         IN SortDiffs([i \in DOMAIN allKeys |->
                          DiffOfKey(leftShifts, rightShifts, allKeys[i])])

\* changedCount: diffs.filter((d) => d.isDifferent).length
changedCount(results) == Cardinality({i \in DOMAIN results : results[i].isDifferent})

\* ------------------------------------------- excel-export: generateExcelRoster
\* roster.shifts.forEach(...) of the summary: hoursPerStaff after the shifts
\* from position i on
RECURSIVE ExcelHours(_, _, _)
ExcelHours(shifts, i, hoursPerStaff) ==
    IF i > Len(shifts) THEN hoursPerStaff
    ELSE LET shift == shifts[i] IN
         IF shift.assigned # NULL
         THEN ExcelHours(shifts, i + 1,
                  [hoursPerStaff EXCEPT ![shift.assigned] = @ + shift.hours])
         ELSE ExcelHours(shifts, i + 1, hoursPerStaff)

\* the staff list of the summary, in the order the Map was filled
ExcelStaff == <<"Ashley", "Peninah", "Joflix", "Locum">>

\* faulty variant: the summary counts the shifts of a member, not their hours
generateExcelRoster_CountsShifts(roster) ==
    LET names == {ExcelStaff[i] : i \in DOMAIN ExcelStaff}
        held(name) == Cardinality({k \in DOMAIN roster.shifts :
                                      roster.shifts[k].assigned = name})
    IN [rows |-> [i \in DOMAIN roster.shifts |->
                     LET shift == roster.shifts[i] IN
                     [date |-> shift.date, weekday |-> shift.weekday,
                      shift |-> shift.shiftLabel,
                      assigned |-> IF shift.assigned # NULL THEN shift.assigned
                                   ELSE "Unassigned",
                      hours |-> shift.hours]],
        summary |-> [i \in DOMAIN ExcelStaff |->
                        [staff |-> ExcelStaff[i],
                         value |-> <<held(ExcelStaff[i]), "hours">>]]]

\* the worksheet: the data rows (rows 2 .. n+1) and the summary rows; the cell
\* text `${hours} hours` is the pair <<hours, "hours">>
generateExcelRoster(roster) ==
    LET names == {ExcelStaff[i] : i \in DOMAIN ExcelStaff}
        hoursPerStaff == ExcelHours(roster.shifts, 1, [s \in names |-> 0])
    IN [rows |-> [i \in DOMAIN roster.shifts |->
                     LET shift == roster.shifts[i] IN
                     [date |-> shift.date, weekday |-> shift.weekday,
                      shift |-> shift.shiftLabel,
                      assigned |-> IF shift.assigned # NULL THEN shift.assigned
                                   ELSE "Unassigned",
                      hours |-> shift.hours]],
        summary |-> [i \in DOMAIN ExcelStaff |->
                        [staff |-> ExcelStaff[i],
                         value |-> <<hoursPerStaff[ExcelStaff[i]], "hours">>]]]

\* ------------------------------------------ roster-utils called on its inputs
\* The library functions are evaluated on arguments drawn from bounded sets:
\* args holds the call, ret the returned value (<<>> until the call returns).
MaxStartDate == 13
MaxShifts == 3
\* generateRosterRequestSchema: weeks <= 12
MaxWeeksAccepted == 12

UtilStartDates == 0..MaxStartDate
UtilWeeks == 1..MaxWeeksAccepted

\* a Monday 24h shift, a Saturday Day shift and a Sunday Night shift, each with
\* any assignee or none
ShiftPool ==
    {[MakeShift(x[1], 0, x[2], x[3]) EXCEPT !.assigned = a] :
        x \in {<<0, "24h", "24h">>, <<5, "Day", "day">>, <<6, "Night", "night">>},
        a \in {STAFF_MEMBERS[i] : i \in DOMAIN STAFF_MEMBERS} \cup {NULL}}

ShiftLists == UNION {[1..n -> ShiftPool] : n \in 0..MaxShifts}

\* the rosters handed to the comparison: up to MaxDiffShifts shifts out of a
\* Monday 24h, a Sunday Day and a Sunday Night shift, in any order, each held
\* by Ashley, by Peninah or by nobody; <<>> is a roster that is not loaded
MaxDiffShifts == 2

DiffPool ==
    {[MakeShift(x[1], 0, x[2], x[3]) EXCEPT !.assigned = a] :
        x \in {<<0, "24h", "24h">>, <<6, "Day", "day">>, <<6, "Night", "night">>},
        a \in {"Ashley", "Peninah", NULL}}

DiffShiftLists ==
    {l \in UNION {[1..n -> DiffPool] : n \in 0..MaxDiffShifts} :
        \A i, j \in DOMAIN l : l[i].id = l[j].id => i = j}

DiffRosters == {<<>>} \cup {<<[shifts |-> l]>> : l \in DiffShiftLists}

InitUtils ==
    /\ mem = [rosters |-> <<>>, swapRequests |-> <<>>, notifications |-> <<>>]
    /\ db = [rosters |-> {}, shifts |-> {}, swapRequests |-> {}, notifications |-> {}]
    /\ clock = 0
    /\ nextRosterId = 1
    /\ nextSwapId = 1
    /\ nextNotifId = 1
    /\ last = Last("init", 0, NoShiftId, NULL, 0, "", 0, "")
    /\ pc = [p \in Procs |-> "idle"]
    /\ call = [p \in Procs |-> NoCall]
    /\ ret = <<>>
    /\ \/ \E startDate \in UtilStartDates, weeks \in UtilWeeks :
             args = [fn |-> "generateRosterShifts", startDate |-> startDate, weeks |-> weeks]
       \/ \E shifts \in ShiftLists :
             args = [fn |-> "calculateStaffHours", shifts |-> shifts]
       \/ \E shifts \in ShiftLists :
             args = [fn |-> "generateExcelRoster", roster |-> [shifts |-> shifts]]
       \/ \E leftRoster \in DiffRosters, rightRoster \in DiffRosters :
             args = [fn |-> "diffs", leftRoster |-> leftRoster, rightRoster |-> rightRoster]

CallGenerateRosterShifts ==
    /\ args.fn = "generateRosterShifts"
    /\ ret = <<>>
    /\ ret' = <<generateRosterShifts(args.startDate, args.weeks)>>
    /\ UNCHANGED <<mem, db, clock, nextRosterId, nextSwapId, nextNotifId, last, pc, call, args>>

CallCalculateStaffHours ==
    /\ args.fn = "calculateStaffHours"
    /\ ret = <<>>
    /\ ret' = <<calculateStaffHours(args.shifts)>>
    /\ UNCHANGED <<mem, db, clock, nextRosterId, nextSwapId, nextNotifId, last, pc, call, args>>

\* calculateStaffHours(roster.shifts) on the shifts just generated
SummarizeGenerated ==
    /\ args.fn = "generateRosterShifts"
    /\ Len(ret) = 1
    /\ ret' = Append(ret, calculateStaffHours(ret[1]))
    /\ UNCHANGED <<mem, db, clock, nextRosterId, nextSwapId, nextNotifId, last, pc, call, args>>

CallDiffs ==
    /\ args.fn = "diffs"
    /\ ret = <<>>
    /\ ret' = <<diffs(args.leftRoster, args.rightRoster)>>
    /\ UNCHANGED <<mem, db, clock, nextRosterId, nextSwapId, nextNotifId, last, pc, call, args>>

CallGenerateExcelRoster ==
    /\ args.fn = "generateExcelRoster"
    /\ ret = <<>>
    /\ ret' = <<generateExcelRoster(args.roster)>>
    /\ UNCHANGED <<mem, db, clock, nextRosterId, nextSwapId, nextNotifId, last, pc, call, args>>

NextUtils ==
    \/ CallGenerateRosterShifts
    \/ CallGenerateExcelRoster
    \/ CallCalculateStaffHours
    \/ SummarizeGenerated
    \/ CallDiffs

SpecUtils == InitUtils /\ [][NextUtils]_vars

\* the value generateRosterShifts returned, and the Monday its dates start on
Generated == args.fn = "generateRosterShifts" /\ ret # <<>>
GenShifts == ret[1]
GenMonday == args.startDate - (args.startDate % 7)
GenDates == GenMonday..(GenMonday + args.weeks * 7 - 1)
ShiftsOn(shifts, date) == {i \in DOMAIN shifts : shifts[i].date = date}

\* ----------------------------------- POST /api/roster/generate, request bodies
\* The weeks member of a request body: absent, a JSON number num/den, or a
\* JSON value that is no number.
Absent == [kind |-> "absent", num |-> 0, den |-> 1]
Number(num, den) == [kind |-> "number", num |-> num, den |-> den]
NotANumber == [kind |-> "string", num |-> 0, den |-> 1]

\* 0, 1, 1.5, 13, "2" and a body without weeks
WeeksInputs == {Absent, Number(0, 1), Number(1, 1), Number(3, 2), Number(13, 1), NotANumber}
Bodies == [startDate : StartDates, weeks : WeeksInputs]

\* the default of generateRosterRequestSchema.weeks
DefaultWeeks == 4

\* generateRosterRequestSchema.safeParse(req.body):
\* weeks: z.number().min(1).max(12).default(4)
safeParse(body) ==
    LET w == body.weeks IN
    IF w.kind = "absent"
    THEN [success |-> TRUE, startDate |-> body.startDate, weeks |-> Number(DefaultWeeks, 1)]
    ELSE IF w.kind = "number" /\ w.num >= 1 * w.den /\ w.num <= MaxWeeksAccepted * w.den
    THEN [success |-> TRUE, startDate |-> body.startDate, weeks |-> w]
    ELSE [success |-> FALSE, startDate |-> body.startDate, weeks |-> w]

\* the least integer >= a/b and the integer part of a/b (a >= 0, b > 0)
Ceil(a, b) == (a + b - 1) \div b
Trunc(a, b) == a \div b

\* the roster object the route builds when weeks is the non-integer num/den:
\* `i < totalDays` runs the generator's loop Ceil(weeks*7) times, addDays
\* drops the fraction of weeks*7 - 1, and weeks is stored as it came
RouteRosterFraction(id, startDate, num, den) ==
    LET endDate == addDays(startDate, Trunc(num * 7 - den, den)) IN
    [id |-> id, name |-> <<"Roster", startDate, endDate>>,
     startDate |-> startDate, endDate |-> endDate, weeks |-> <<num, den>>,
     shifts |-> GenLoop(startOfWeek(startDate), 0, Ceil(num * 7, den)),
     version |-> 1, isActive |-> TRUE]

\* DatabaseStorage.saveRoster with a non-integer weeks: every roster is
\* deactivated, then the INSERT into rosters fails on the integer column
DbSaveRosterFraction(d) ==
    [db |-> [d EXCEPT !.rosters = DbDeactivateAll(@)], result |-> "error"]

\* the request and the answer of each implementation
LastGenerate(id, body, memStatus, memResult, dbStatus, dbResult) ==
    [op |-> "generate", id |-> id, body |-> body,
     mem |-> [status |-> memStatus, result |-> memResult],
     db |-> [status |-> dbStatus, result |-> dbResult]]

\* POST /api/roster/generate with any request body
PostGenerate(body) ==
    /\ clock < MaxClock
    /\ LET parseResult == safeParse(body)
           now == clock + 1
           w == parseResult.weeks
       IN IF ~parseResult.success
          THEN /\ mem' = mem
               /\ db' = db
               /\ last' = LastGenerate(0, body, 400, "invalid", 400, "invalid")
               /\ nextRosterId' = nextRosterId
          ELSE /\ nextRosterId <= MaxRosters
               /\ nextRosterId' = nextRosterId + 1
               /\ IF w.den = 1
                  THEN LET roster == RouteRoster(nextRosterId, body.startDate, w.num)
                           m == MemSaveRoster(mem.rosters, roster, now)
                           d == DbSaveRoster(db, roster, now)
                       IN /\ mem' = [mem EXCEPT !.rosters = m.rosters]
                          /\ db' = d.db
                          /\ last' = LastGenerate(nextRosterId, body, 200, m.result,
                                         IF d.result = "ok" THEN 200 ELSE 500, d.result)
                  ELSE LET roster == RouteRosterFraction(nextRosterId, body.startDate,
                                                         w.num, w.den)
                           m == MemSaveRoster(mem.rosters, roster, now)
                           d == DbSaveRosterFraction(db)
                       IN /\ mem' = [mem EXCEPT !.rosters = m.rosters]
                          /\ db' = d.db
                          /\ last' = LastGenerate(nextRosterId, body, 200, m.result,
                                                  500, d.result)
    /\ clock' = clock + 1
    /\ UNCHANGED <<nextSwapId, nextNotifId, pc, call, args, ret>>

NextRoute ==
    \/ \E body \in Bodies : PostGenerate(body)
    \/ \E rosterId \in RosterIdInputs : Activate(rosterId)
    \/ \E rosterId \in RosterIdInputs : Delete(rosterId)

SpecRoute == Init /\ [][NextRoute]_vars

\* ===================================================================== claims

\* C1: every stored shift whose assignee is non-null has that assignee in its
\* own allowedStaff list, in both implementations, after any sequence of
\* generate / updateShift / respondToSwapRequest requests.
EligibleAssignees(view) ==
    \A s \in view.shifts : s.assigned # NULL => Includes(s.allowedStaff, s.assigned)
C1_AssigneeAlwaysEligible ==
    EligibleAssignees(MemView(mem)) /\ EligibleAssignees(DbView(db))

\* C5: a locked shift (allowedStaff has exactly one member) always holds its
\* sole eligible assignee: it is never unassigned and never assigned to
\* anyone else.
LockedKept(view) ==
    \A s \in view.shifts : Len(s.allowedStaff) = 1 => s.assigned = s.allowedStaff[1]
C5_LockedShiftKeepsAssignee ==
    LockedKept(MemView(mem)) /\ LockedKept(DbView(db))

\* C2: a swap request is mutated exactly once: once its status is approved or
\* rejected, no request changes its status or its respondedAt, and a further
\* respondToSwapRequest on it leaves every shift's assignee as it was.
RespondedOnce(pre, post, op) ==
    \A q \in pre.swapRequests : q.status # "pending" =>
        /\ \A q2 \in post.swapRequests : q2.id = q.id =>
              q2.status = q.status /\ q2.respondedAt = q.respondedAt
        /\ (op.op = "respondToSwapRequest" /\ op.id = q.id) => post.shifts = pre.shifts
C2_RespondedExactlyOnce ==
    [][/\ RespondedOnce(MemView(mem), MemView(mem'), last')
       /\ RespondedOnce(DbView(db), DbView(db'), last')]_vars

\* C3: at most one stored roster is active, and right after a successful
\* saveRoster, or a setActiveRoster of a stored id, exactly that roster is the
\* active one (requests served one at a time).
SingleActive(view, answer) ==
    /\ Cardinality(ActiveIds(view)) <= 1
    /\ (last.op = "generate" /\ answer.status = 200) => ActiveIds(view) = {last.id}
    /\ (last.op = "setActiveRoster" /\ last.id \in RosterIds(view)) =>
          ActiveIds(view) = {last.id}
C3_AtMostOneActive ==
    SingleActive(MemView(mem), last.mem) /\ SingleActive(DbView(db), last.db)
C3_Witness ==
    /\ last.op = "setActiveRoster" /\ last.id = 1
    /\ RosterIds(MemView(mem)) = {1, 2} /\ RosterIds(DbView(db)) = {1, 2}
    /\ ActiveIds(MemView(mem)) = {1} /\ ActiveIds(DbView(db)) = {1}

\* C6: updateShift on a stored shift is rejected with the "not allowed" error
\* (400) exactly when the proposed assignee is non-null and outside the shift's
\* allowedStaff, and is accepted (200) otherwise; an unknown shift id gives the
\* null result (404); a rejection or a null result leaves every roster and
\* every shift, updatedAt included, unchanged.
UpdateValidated(pre, post, answer, shiftId, proposed) ==
    LET target == {s \in pre.shifts : s.id = shiftId} IN
    /\ target = {} => answer.result = "null" /\ answer.status = 404
    /\ target # {} =>
          /\ answer.result \in {"ok", "not_allowed"}
          /\ answer.result = "not_allowed" <=>
                (proposed # NULL /\ \E s \in target : ~Includes(s.allowedStaff, proposed))
          /\ answer.status = (IF answer.result = "ok" THEN 200 ELSE 400)
    /\ answer.result # "ok" => post.shifts = pre.shifts /\ post.rosters = pre.rosters
C6_UpdateShiftValidation ==
    [][last'.op = "updateShift" =>
        /\ UpdateValidated(MemView(mem), MemView(mem'), last'.mem, last'.shiftId, last'.value)
        /\ UpdateValidated(DbView(db), DbView(db'), last'.db, last'.shiftId, last'.value)]_vars
C6_Witness ==
    /\ last.op = "updateShift" /\ last.value = "Ashley" /\ last.shiftId = <<5, "day">>
    /\ last.mem.result = "not_allowed" /\ last.db.result = "not_allowed"
    /\ \E s \in db.shifts : s.id = last.shiftId /\ s.assigned = "Joflix"

\* the one stored shift a request's shiftId refers to, as {<<rosterId, shiftId>>}
\* (empty when no stored shift has the id)
MemTarget(m, shiftId) ==
    LET ri == FirstRosterWith(m.rosters, shiftId) IN
    IF ri = 0 THEN {} ELSE {<<m.rosters[ri].id, shiftId>>}
DbTarget(d, shiftId) == {<<s.rosterId, s.id>> : s \in DbShiftById(d.shifts, shiftId)}

\* C7: responding "rejected" (or to an unknown request) leaves every shift as
\* it was; responding "approved" sets the assignee of exactly the referenced
\* shift to the request's toStaff and changes no other shift and no other
\* field.
ResponseFrame(pre, post, answer, requestId, status, target) ==
    /\ (status = "rejected" \/ answer.result = "null") => post.shifts = pre.shifts
    /\ (status = "approved" /\ answer.result = "ok") =>
          \E q \in pre.swapRequests :
             /\ q.id = requestId
             /\ post.shifts = {IF <<s.rosterId, s.id>> \in target[q.shiftId]
                               THEN [s EXCEPT !.assigned = q.toStaff] ELSE s
                               : s \in pre.shifts}
C7_ResponseTouchesOnlyTarget ==
    [][last'.op = "respondToSwapRequest" =>
        /\ ResponseFrame(MemView(mem), MemView(mem'), last'.mem, last'.id, last'.value,
              [i \in {q.shiftId : q \in MemView(mem).swapRequests} |-> MemTarget(mem, i)])
        /\ ResponseFrame(DbView(db), DbView(db'), last'.db, last'.id, last'.value,
              [i \in {q.shiftId : q \in db.swapRequests} |-> DbTarget(db, i)])]_vars
C7_Witness ==
    /\ last.op = "respondToSwapRequest" /\ last.value = "approved"
    /\ last.mem.result = "ok" /\ last.db.result = "ok"
    /\ \E q \in db.swapRequests : q.id = last.id /\ q.toStaff = "Joflix"
          /\ (\E s \in db.shifts : s.id = q.shiftId /\ s.assigned = "Joflix")
          /\ (\E t \in MemView(mem).shifts : t.id = q.shiftId /\ t.assigned = "Joflix")
          /\ (\E u \in db.shifts : u.id # q.shiftId /\ u.assigned = NULL)

\* C8: no request changes the assignee of a stored shift while leaving the
\* updatedAt of the roster that owns it unchanged.
AssigneeChangeBumps(pre, post) ==
    \A s \in pre.shifts : \A s2 \in post.shifts :
        (s2.rosterId = s.rosterId /\ s2.id = s.id /\ s2.assigned # s.assigned) =>
            \A r \in pre.rosters : \A r2 \in post.rosters :
                (r.id = s.rosterId /\ r2.id = s.rosterId) => r2.updatedAt # r.updatedAt
C8_AssigneeChangeBumpsUpdatedAt ==
    [][/\ AssigneeChangeBumps(MemView(mem), MemView(mem'))
       /\ AssigneeChangeBumps(DbView(db), DbView(db'))]_vars

\* C9: generating a roster for a (startDate, weeks) for which an earlier roster
\* is still stored succeeds (200), and the new roster is the active one and
\* holds the weeks*9 generated shifts (same ids, allowedStaff and default
\* assignees as a first generation).
Regenerated(view, answer) ==
    \A r \in view.rosters :
        (/\ last.op = "generate" /\ r.id = last.id
         /\ \E e \in view.rosters :
               e.id # r.id /\ e.startDate = r.startDate /\ e.weeks = r.weeks) =>
            /\ answer.status = 200
            /\ ActiveIds(view) = {r.id}
            /\ Cardinality(ShiftsOf(view, r.id)) = r.weeks * 9
            /\ ShiftsOf(view, r.id) = DbShiftRows(RouteRoster(r.id, r.startDate, r.weeks))
C9_RegenerationIdempotent ==
    Regenerated(MemView(mem), last.mem) /\ Regenerated(DbView(db), last.db)

\* C10: deleteRoster(id) removes that roster and all of its shifts and leaves
\* every other roster and every other shift unchanged; no stored shift is ever
\* left without its roster; and no other request removes (or adds) a shift of a
\* stored roster.
DeleteFrame(pre, post, op) ==
    /\ op.op = "deleteRoster" =>
          /\ op.id \notin RosterIds(post)
          /\ ShiftsOf(post, op.id) = {}
          /\ post.rosters = {r \in pre.rosters : r.id # op.id}
          /\ post.shifts = {s \in pre.shifts : s.rosterId # op.id}
    /\ op.op # "deleteRoster" =>
          \A r \in pre.rosters :
             /\ r.id \in RosterIds(post)
             /\ {s.id : s \in ShiftsOf(post, r.id)} = {s.id : s \in ShiftsOf(pre, r.id)}
    /\ \A s \in post.shifts : s.rosterId \in RosterIds(post)
C10_DeleteRemovesRosterAndShifts ==
    [][/\ DeleteFrame(MemView(mem), MemView(mem'), last')
       /\ DeleteFrame(DbView(db), DbView(db'), last')]_vars
C10_Witness ==
    /\ last.op = "deleteRoster" /\ last.id = 1 /\ nextRosterId = 3
    /\ RosterIds(MemView(mem)) = {2} /\ RosterIds(DbView(db)) = {2}
    /\ Cardinality(ShiftsOf(DbView(db), 2)) = 9
    /\ Cardinality(ShiftsOf(MemView(mem), 2)) = 9
    /\ \A s \in db.shifts : s.rosterId = 2

\* C4: activation is atomic: while two setActiveRoster / saveRoster calls of
\* DatabaseStorage run concurrently, with their statements interleaved in any
\* order, no state (the final one included) has two active rosters.
C4_ConcurrentActivationAtomic ==
    Cardinality(ActiveIds(DbView(db))) <= 1

\* C11: every request that fails validation (assignee not eligible; shift,
\* roster or swap request not found) is answered with a 4xx status by both
\* implementations and leaves storage as it was.
FailsValidation(answer, known) ==
    \/ last'.op = "updateShift" /\ answer.result \in {"null", "not_allowed"}
    \/ last'.op = "createSwapRequest" /\ answer.result = "shift_not_found"
    \/ last'.op = "respondToSwapRequest" /\ answer.result = "null"
    \/ last'.op \in {"setActiveRoster", "deleteRoster"} /\ last'.id \notin known
ClientError(answer) == answer.status >= 400 /\ answer.status <= 499
C11_ValidationFailureIsClientError ==
    [][/\ FailsValidation(last'.mem, RosterIds(MemView(mem)))
            => ClientError(last'.mem) /\ mem' = mem
       /\ FailsValidation(last'.db, RosterIds(DbView(db)))
            => ClientError(last'.db) /\ db' = db]_vars

\* C12: for every start date and every weeks in 1..12 generateRosterShifts
\* returns exactly weeks*9 shifts: one "24h" shift for each Monday-Friday date
\* and one "Day" plus one "Night" shift for each Saturday and Sunday date of
\* the weeks*7 consecutive days, and no shift on any other date.
C12_NineShiftsPerWeek ==
    Generated =>
        /\ Len(GenShifts) = args.weeks * 9
        /\ \A i \in DOMAIN GenShifts : GenShifts[i].date \in GenDates
        /\ \A d \in GenDates :
              LET on == ShiftsOn(GenShifts, d) IN
              IF (d - GenMonday) % 7 < 5
              THEN Cardinality(on) = 1 /\ \A i \in on : GenShifts[i].shiftType = "24h"
              ELSE /\ Cardinality(on) = 2
                   /\ \E i \in on : GenShifts[i].shiftType = "Day"
                   /\ \E i \in on : GenShifts[i].shiftType = "Night"
C12_Witness ==
    /\ Generated
    /\ args.weeks = MaxWeeksAccepted
    /\ args.startDate = 9
    /\ Len(GenShifts) = 108

\* C13: every shift generateRosterShifts returns (any start date, weeks in
\* 1..12) has a non-empty allowedStaff, and its default assignee, when
\* non-null, is a member of that allowedStaff.
C13_DefaultAssigneeEligible ==
    Generated =>
        \A i \in DOMAIN GenShifts :
            /\ Len(GenShifts[i].allowedStaff) > 0
            /\ GenShifts[i].assigned # NULL
                  => Includes(GenShifts[i].allowedStaff, GenShifts[i].assigned)
C13_Witness ==
    /\ Generated
    /\ args.weeks = MaxWeeksAccepted
    /\ \E i \in DOMAIN GenShifts :
          /\ GenShifts[i].date = GenMonday + 11 * 7 + 5
          /\ GenShifts[i].shiftType = "Night"
          /\ GenShifts[i].assigned = "Locum"
          /\ Len(GenShifts[i].allowedStaff) = 3

\* C14: getDefaultAssignment follows the rule table on every shift the
\* generator builds: Mon Ashley, Tue Peninah, Wed Joflix, Thu Joflix, Fri
\* Peninah before week 3 and Locum from week 3 on, Sat Day Joflix, Sat Night
\* Locum from week 3 on and before that Ashley (even week) / Peninah (odd), Sun
\* Day Ashley (even) / Peninah (odd), Sun Night Peninah (even) / Ashley (odd);
\* so Locum is no default assignee in weeks 0..2 and no default is null.
RuleTable(weekday, shiftType, weekIndex) ==
    CASE weekday = 0 -> "Ashley"
      [] weekday = 1 -> "Peninah"
      [] weekday = 2 -> "Joflix"
      [] weekday = 3 -> "Joflix"
      [] weekday = 4 -> IF weekIndex < 3 THEN "Peninah" ELSE "Locum"
      [] weekday = 5 /\ shiftType = "Day" -> "Joflix"
      [] weekday = 5 /\ shiftType = "Night" ->
            IF weekIndex >= 3 THEN "Locum"
            ELSE IF weekIndex % 2 = 0 THEN "Ashley" ELSE "Peninah"
      [] weekday = 6 /\ shiftType = "Day" ->
            IF weekIndex % 2 = 0 THEN "Ashley" ELSE "Peninah"
      [] weekday = 6 /\ shiftType = "Night" ->
            IF weekIndex % 2 = 0 THEN "Peninah" ELSE "Ashley"
      [] OTHER -> "no rule"
C14_DefaultsFollowRuleTable ==
    Generated =>
        \A i \in DOMAIN GenShifts :
            LET s == GenShifts[i]
                weekday == (s.date - GenMonday) % 7
                weekIndex == (s.date - GenMonday) \div 7
            IN /\ s.assigned = RuleTable(weekday, s.shiftType, weekIndex)
               /\ s.assigned # NULL
               /\ weekIndex <= 2 => s.assigned # "Locum"
C14_Witness ==
    /\ Generated
    /\ args.weeks = 5
    /\ \E i \in DOMAIN GenShifts :
          GenShifts[i].date = GenMonday + 4 * 7 + 4 /\ GenShifts[i].assigned = "Locum"
    /\ \E i \in DOMAIN GenShifts :
          /\ GenShifts[i].date = GenMonday + 3 * 7 + 5
          /\ GenShifts[i].shiftType = "Night" /\ GenShifts[i].assigned = "Locum"
    /\ \E i \in DOMAIN GenShifts :
          GenShifts[i].date = GenMonday + 2 * 7 + 4 /\ GenShifts[i].assigned = "Peninah"

\* C15: in every generated roster each Saturday Day shift has allowedStaff
\* exactly {Joflix} and default assignee Joflix, each Saturday Night and each
\* Sunday shift has allowedStaff exactly {Ashley, Peninah, Locum}, and each
\* Monday-Friday shift has all four staff in allowedStaff.
AllowedSet(s) == {s.allowedStaff[j] : j \in DOMAIN s.allowedStaff}
C15_WeekendEligibility ==
    Generated =>
        \A i \in DOMAIN GenShifts :
            LET s == GenShifts[i]
                weekday == (s.date - GenMonday) % 7
            IN IF weekday = 5 /\ s.shiftType = "Day"
               THEN AllowedSet(s) = {"Joflix"} /\ s.assigned = "Joflix"
               ELSE IF weekday >= 5
               THEN AllowedSet(s) = {"Ashley", "Peninah", "Locum"}
               ELSE AllowedSet(s) = {"Ashley", "Peninah", "Joflix", "Locum"}
C15_Witness ==
    /\ Generated
    /\ args.weeks = 2
    /\ args.startDate = 5
    /\ \E i \in DOMAIN GenShifts :
          /\ GenShifts[i].date = 12 /\ GenShifts[i].shiftType = "Day"
          /\ GenShifts[i].allowedStaff = <<"Joflix">>
    /\ \E i \in DOMAIN GenShifts :
          /\ GenShifts[i].date = 13 /\ GenShifts[i].shiftType = "Day"
          /\ GenShifts[i].allowedStaff = <<"Ashley", "Peninah", "Locum">>

\* C16: the returned sequence is ordered by non-decreasing date, the Day shift
\* of a weekend date comes immediately before the Night shift of that date,
\* and all shift ids of the sequence are pairwise distinct.
C16_ChronologicalAndDistinct ==
    Generated =>
        /\ \A i \in 1..(Len(GenShifts) - 1) : GenShifts[i].date <= GenShifts[i + 1].date
        /\ \A i \in DOMAIN GenShifts :
              /\ GenShifts[i].shiftType = "Day" =>
                    /\ i < Len(GenShifts)
                    /\ GenShifts[i + 1].shiftType = "Night"
                    /\ GenShifts[i + 1].date = GenShifts[i].date
              /\ GenShifts[i].shiftType = "Night" =>
                    /\ i > 1
                    /\ GenShifts[i - 1].shiftType = "Day"
                    /\ GenShifts[i - 1].date = GenShifts[i].date
        /\ \A i, j \in DOMAIN GenShifts : GenShifts[i].id = GenShifts[j].id => i = j
C16_Witness ==
    /\ Generated
    /\ args.weeks = 3
    /\ Len(GenShifts) = 27
    /\ GenShifts[6].id = <<GenMonday + 5, "day">>
    /\ GenShifts[7].id = <<GenMonday + 5, "night">>
    /\ GenShifts[27].id = <<GenMonday + 20, "night">>

\* C17: for any start date, whatever its weekday, the first generated shift
\* falls on the Monday of the week containing the start date (the start date
\* itself when it is a Monday, else the Monday before it), and weekIndex k
\* covers exactly the 7 days Monday..Sunday of the k-th week from that Monday:
\* each shift carries the default of its date's week.
C17_SnappedToMonday ==
    Generated =>
        /\ Len(GenShifts) > 0
        /\ GenShifts[1].weekday = "Mon"
        /\ GenShifts[1].date <= args.startDate
        /\ args.startDate - GenShifts[1].date < 7
        /\ GenShifts[1].date % 7 = 0
        /\ \A i \in DOMAIN GenShifts :
              LET s == GenShifts[i]
                  weekIndex == (s.date - GenShifts[1].date) \div 7
              IN /\ weekIndex \in 0..(args.weeks - 1)
                 /\ s.assigned = getDefaultAssignment(s.date, s.shiftType, weekIndex)
C17_Witness ==
    /\ Generated
    /\ args.startDate = 13
    /\ args.weeks = 4
    /\ GenShifts[1].date = 7
    /\ GenShifts[Len(GenShifts)].date = 34
    /\ GenShifts[Len(GenShifts)].assigned = "Ashley"

\* C20: calculateStaffHours returns exactly four records, one per staff
\* member, in the order Ashley, Peninah, Joflix, Locum whatever the order of
\* the input shifts; for an empty input every record has totalHours = 0 and
\* shiftCount = 0.
Summarized == args.fn = "calculateStaffHours" /\ ret # <<>>
Summary == ret[1]
C20_SummaryListsAllStaffInOrder ==
    Summarized =>
        /\ Len(Summary) = 4
        /\ Summary[1].name = "Ashley"
        /\ Summary[2].name = "Peninah"
        /\ Summary[3].name = "Joflix"
        /\ Summary[4].name = "Locum"
        /\ args.shifts = <<>> =>
              \A i \in 1..4 : Summary[i].totalHours = 0 /\ Summary[i].shiftCount = 0
C20_Witness ==
    /\ Summarized
    /\ Len(args.shifts) = 2
    /\ args.shifts[1].assigned = "Locum"
    /\ args.shifts[2].assigned = "Ashley"
    /\ Summary[1].shiftCount = 1
    /\ Summary[2].shiftCount = 0
    /\ Summary[4].shiftCount = 1

\* C18: every roster stored by POST /api/roster/generate starts on a Monday
\* and covers its own shifts: startDate is a Monday, endDate = startDate +
\* weeks*7 - 1 days, and every shift of the roster has startDate <= date <=
\* endDate, whatever the weekday of the request's startDate.
CoversOwnShifts(view) ==
    \A r \in view.rosters :
        /\ r.startDate % 7 = 0
        /\ r.endDate = r.startDate + r.weeks * 7 - 1
        /\ \A s \in ShiftsOf(view, r.id) : r.startDate <= s.date /\ s.date <= r.endDate
C18_RosterStartsOnMondayAndCoversShifts ==
    CoversOwnShifts(MemView(mem)) /\ CoversOwnShifts(DbView(db))

\* C19: POST /api/roster/generate accepts a request only when weeks is an
\* integer between 1 and 12 (or absent, defaulting to 4); any other weeks
\* value is answered with 400 by both implementations, no roster is saved and
\* the active roster (all of storage) is as it was.
WeeksAcceptable(w) ==
    \/ w.kind = "absent"
    \/ w.kind = "number" /\ w.den = 1 /\ w.num >= 1 /\ w.num <= 12
C19_OnlyIntegerWeeksAccepted ==
    [][(last'.op = "generate" /\ ~WeeksAcceptable(last'.body.weeks)) =>
          /\ last'.mem.status = 400 /\ mem' = mem
          /\ last'.db.status = 400 /\ db' = db]_vars

\* C21: for every shift list, each staff member's totalHours is the sum of the
\* hours of the shifts assigned to that member, the four totalHours add up to
\* the hours of the shifts with a non-null assignee, and the four shiftCounts
\* add up to the number of such shifts; unassigned shifts contribute nothing.
RECURSIVE HoursAssignedTo(_, _)
HoursAssignedTo(shifts, names) ==
    IF shifts = <<>> THEN 0
    ELSE (IF Head(shifts).assigned \in names THEN Head(shifts).hours ELSE 0)
         + HoursAssignedTo(Tail(shifts), names)
StaffNames == {"Ashley", "Peninah", "Joflix", "Locum"}
C21_SummaryConservesHours ==
    Summarized =>
        /\ \A i \in DOMAIN Summary :
              /\ Summary[i].totalHours = HoursAssignedTo(args.shifts, {Summary[i].name})
              /\ Summary[i].shiftCount =
                    Cardinality({k \in DOMAIN args.shifts :
                                    args.shifts[k].assigned = Summary[i].name})
        /\ Summary[1].totalHours + Summary[2].totalHours
              + Summary[3].totalHours + Summary[4].totalHours
              = HoursAssignedTo(args.shifts, StaffNames)
        /\ Summary[1].shiftCount + Summary[2].shiftCount
              + Summary[3].shiftCount + Summary[4].shiftCount
              = Cardinality({k \in DOMAIN args.shifts : args.shifts[k].assigned # NULL})
C21_Witness ==
    /\ Summarized
    /\ Len(args.shifts) = 3
    /\ args.shifts[1].assigned = "Ashley" /\ args.shifts[1].hours = 24
    /\ args.shifts[2].assigned = NULL /\ args.shifts[2].hours = 12
    /\ args.shifts[3].assigned = "Ashley" /\ args.shifts[3].hours = 12
    /\ Summary[1].totalHours = 36
    /\ Summary[1].shiftCount = 2

\* C22: the roster diff yields exactly one record per distinct (date,
\* shiftType) key present in either roster, sorted ascending by (date,
\* shiftType); each record carries the left and the right assignee, a missing
\* shift counting as unassigned, and isDifferent is true if and only if the
\* two assignees differ.
Diffed == args.fn = "diffs" /\ ret # <<>> /\ args.leftRoster # <<>> /\ args.rightRoster # <<>>
DiffResult == ret[1]
KeysIn(shifts) == {<<shifts[i].date, shifts[i].shiftType>> : i \in DOMAIN shifts}
AssigneeIn(shifts, key) ==
    IF key \in KeysIn(shifts)
    THEN LET i == CHOOSE k \in DOMAIN shifts : <<shifts[k].date, shifts[k].shiftType>> = key
         IN shifts[i].assigned
    ELSE NULL
TypeBefore(a, b) == <<a, b>> \in {<<"24h", "Day">>, <<"24h", "Night">>, <<"Day", "Night">>}
C22_DiffOneRecordPerKey ==
    Diffed =>
        LET left == args.leftRoster[1].shifts
            right == args.rightRoster[1].shifts
        IN /\ KeysIn(DiffResult) = KeysIn(left) \cup KeysIn(right)
           /\ Len(DiffResult) = Cardinality(KeysIn(left) \cup KeysIn(right))
           /\ \A i \in 1..(Len(DiffResult) - 1) :
                 \/ DiffResult[i].date < DiffResult[i + 1].date
                 \/ /\ DiffResult[i].date = DiffResult[i + 1].date
                    /\ TypeBefore(DiffResult[i].shiftType, DiffResult[i + 1].shiftType)
           /\ \A i \in DOMAIN DiffResult :
                 LET d == DiffResult[i]
                     key == <<d.date, d.shiftType>>
                 IN /\ d.leftAssigned = AssigneeIn(left, key)
                    /\ d.rightAssigned = AssigneeIn(right, key)
                    /\ d.isDifferent <=> (d.leftAssigned # d.rightAssigned)
C22_Witness ==
    /\ Diffed
    /\ Len(args.leftRoster[1].shifts) = 2
    /\ args.leftRoster[1].shifts[1].id = <<6, "night">>
    /\ args.leftRoster[1].shifts[1].assigned = "Ashley"
    /\ args.leftRoster[1].shifts[2].id = <<0, "24h">>
    /\ args.leftRoster[1].shifts[2].assigned = "Ashley"
    /\ Len(args.rightRoster[1].shifts) = 2
    /\ args.rightRoster[1].shifts[1].id = <<6, "day">>
    /\ args.rightRoster[1].shifts[2].id = <<0, "24h">>
    /\ args.rightRoster[1].shifts[2].assigned = "Peninah"
    /\ Len(DiffResult) = 3
    /\ DiffResult[1].isDifferent
    /\ DiffResult[2].shiftType = "Day"
    /\ DiffResult[3].rightAssigned = NULL

\* C23: diffing a roster against itself yields no record with isDifferent =
\* true (changedCount is 0), whatever assignments, unassigned shifts included,
\* the roster holds.
C23_SelfDiffShowsNoChange ==
    (Diffed /\ args.leftRoster = args.rightRoster) =>
        /\ changedCount(DiffResult) = 0
        /\ \A i \in DOMAIN DiffResult : ~DiffResult[i].isDifferent
        /\ Len(DiffResult) = Len(args.leftRoster[1].shifts)
C23_Witness ==
    /\ Diffed
    /\ args.leftRoster = args.rightRoster
    /\ Len(args.leftRoster[1].shifts) = 2
    /\ args.leftRoster[1].shifts[1].assigned = NULL
    /\ args.leftRoster[1].shifts[2].assigned = "Peninah"
    /\ Len(DiffResult) = 2

\* C24: InMemoryStorage and DatabaseStorage are interchangeable: after any
\* sequence of requests served one at a time both give the same answer to the
\* last request and hold the same observable state (rosters with isActive and
\* updatedAt, each roster's shifts and assignees, swap requests with status).
C24_StorageImplementationsAgree ==
    /\ last.mem = last.db
    /\ MemView(mem) = DbView(db)

\* C26: a shift id addresses at most one stored shift: no two stored shifts
\* (of the same or of different rosters) share an id, in either
\* implementation, also after rosters with overlapping dates were saved.
UniqueShiftIds(view) ==
    \A s, t \in view.shifts : s.id = t.id => s.rosterId = t.rosterId
C26_ShiftIdAddressesOneShift ==
    UniqueShiftIds(MemView(mem)) /\ UniqueShiftIds(DbView(db))

\* C27: approving a swap request moves the shift from fromStaff to toStaff
\* only: createSwapRequest is accepted only when fromStaff is the current
\* assignee of the shift, and an approval issued when the shift's assignee is
\* no longer fromStaff leaves the assignee as it is.
SwapMovesFromStaffOnly(pre, post, op, answer) ==
    /\ (op.op = "createSwapRequest" /\ answer.result = "ok") =>
          \A q \in post.swapRequests : q.id = op.id =>
             \E s \in pre.shifts : s.id = q.shiftId /\ s.assigned = q.fromStaff
    /\ (op.op = "respondToSwapRequest" /\ op.value = "approved") =>
          \A q \in pre.swapRequests : q.id = op.id =>
             \A s \in pre.shifts : (s.id = q.shiftId /\ s.assigned # q.fromStaff) =>
                s \in post.shifts
C27_SwapMovesShiftFromRequester ==
    [][/\ SwapMovesFromStaffOnly(MemView(mem), MemView(mem'), last', last'.mem)
       /\ SwapMovesFromStaffOnly(DbView(db), DbView(db'), last', last'.db)]_vars

\* C25: the hours summary of the Excel export equals calculateStaffHours: for
\* every roster and every staff member the hours written by
\* generateExcelRoster are calculateStaffHours(roster.shifts).totalHours of
\* that member, and the export has one data row per shift, in order, showing
\* the assignee or "Unassigned".
Exported == args.fn = "generateExcelRoster" /\ ret # <<>>
Sheet == ret[1]
C25_ExportSummaryMatchesAggregator ==
    Exported =>
        LET shifts == args.roster.shifts
            staffHours == calculateStaffHours(shifts)
        IN /\ \A i \in DOMAIN staffHours :
                 \E j \in DOMAIN Sheet.summary :
                    /\ Sheet.summary[j].staff = staffHours[i].name
                    /\ Sheet.summary[j].value = <<staffHours[i].totalHours, "hours">>
           /\ Len(Sheet.summary) = Len(staffHours)
           /\ Len(Sheet.rows) = Len(shifts)
           /\ \A i \in DOMAIN shifts :
                 /\ Sheet.rows[i].date = shifts[i].date
                 /\ Sheet.rows[i].hours = shifts[i].hours
                 /\ Sheet.rows[i].assigned =
                       (IF shifts[i].assigned = NULL THEN "Unassigned" ELSE shifts[i].assigned)
C25_Witness ==
    /\ Exported
    /\ Len(args.roster.shifts) = 3
    /\ args.roster.shifts[1].assigned = "Joflix" /\ args.roster.shifts[1].hours = 12
    /\ args.roster.shifts[2].assigned = NULL
    /\ args.roster.shifts[3].assigned = "Joflix" /\ args.roster.shifts[3].hours = 24
    /\ Sheet.rows[2].assigned = "Unassigned"
    /\ Sheet.summary[3].value = <<36, "hours">>

\* C28: every generated roster gives full 24-hour cover of every day: on each
\* of the weeks*7 dates the hours of that date's shifts add up to 24, so the
\* hours of all generated shifts total weeks*168, and calculateStaffHours of
\* the generated (default) assignments totals weeks*168 as well.
RECURSIVE HoursInRange(_, _, _, _)
HoursInRange(shifts, lo, hi, dates) ==
    IF lo > hi THEN 0
    ELSE IF lo = hi THEN (IF shifts[lo].date \in dates THEN shifts[lo].hours ELSE 0)
    ELSE LET mid == (lo + hi) \div 2 IN
         HoursInRange(shifts, lo, mid, dates) + HoursInRange(shifts, mid + 1, hi, dates)
HoursOfDates(shifts, dates) == HoursInRange(shifts, 1, Len(shifts), dates)
GeneratedSummarized == args.fn = "generateRosterShifts" /\ Len(ret) = 2
C28_FullCoverEveryDay ==
    /\ Generated =>
          /\ \A d \in GenDates : HoursOfDates(GenShifts, {d}) = 24
          /\ HoursOfDates(GenShifts, GenDates) = args.weeks * 168
    /\ GeneratedSummarized =>
          ret[2][1].totalHours + ret[2][2].totalHours + ret[2][3].totalHours
             + ret[2][4].totalHours = args.weeks * 168
C28_Witness ==
    /\ GeneratedSummarized
    /\ args.weeks = MaxWeeksAccepted
    /\ ret[2][4].name = "Locum"
    /\ ret[2][4].totalHours = 9 * 24 + 9 * 12
    /\ ret[2][3].totalHours = 12 * 60

\* C29: in the default assignments of a generated roster (weeks 1..12) no
\* staff member is the assignee of three consecutive shifts of the sequence,
\* week boundaries included, so no run of consecutive shifts of one member
\* exceeds 48 hours.
C29_NoThreeConsecutiveShifts ==
    Generated =>
        /\ \A i \in 1..(Len(GenShifts) - 2) :
              ~(/\ GenShifts[i].assigned = GenShifts[i + 1].assigned
                /\ GenShifts[i + 1].assigned = GenShifts[i + 2].assigned)
        /\ \A i \in 1..(Len(GenShifts) - 1) :
              GenShifts[i].assigned = GenShifts[i + 1].assigned =>
                 GenShifts[i].hours + GenShifts[i + 1].hours <= 48
C29_Witness ==
    /\ Generated
    /\ args.weeks = MaxWeeksAccepted
    /\ \E i \in 1..(Len(GenShifts) - 1) :
          /\ GenShifts[i].weekday = "Wed" /\ GenShifts[i].assigned = "Joflix"
          /\ GenShifts[i + 1].weekday = "Thu" /\ GenShifts[i + 1].assigned = "Joflix"
    /\ \E i \in 1..(Len(GenShifts) - 1) :
          /\ GenShifts[i].weekday = "Sun" /\ GenShifts[i].assigned = "Ashley"
          /\ GenShifts[i + 1].weekday = "Mon" /\ GenShifts[i + 1].assigned = "Ashley"

\* C30: deleting the active roster leaves no active roster: after
\* deleteRoster(id) of the roster with isActive = true no stored roster is
\* active (getActiveRoster returns null), and no request other than a generate
\* (saveRoster) or a setActiveRoster makes a roster active.
NoActiveAfterDelete(pre, post, op) ==
    /\ (op.op = "deleteRoster" /\ op.id \in ActiveIds(pre)) => ActiveIds(post) = {}
    /\ op.op \notin {"generate", "setActiveRoster"} => ActiveIds(post) \subseteq ActiveIds(pre)
C30_DeletingActiveLeavesNoneActive ==
    [][/\ NoActiveAfterDelete(MemView(mem), MemView(mem'), last')
       /\ NoActiveAfterDelete(DbView(db), DbView(db'), last')
       /\ (last'.op = "deleteRoster" /\ last'.id \in ActiveIds(MemView(mem)))
             => MemGetActiveRoster(mem'.rosters) = <<>>]_vars
C30_Witness ==
    /\ last.op = "deleteRoster"
    /\ last.id = 2
    /\ clock = 3
    /\ RosterIds(MemView(mem)) = {1}
    /\ RosterIds(DbView(db)) = {1}
    /\ ActiveIds(MemView(mem)) = {}
    /\ ActiveIds(DbView(db)) = {}
    /\ MemGetActiveRoster(mem.rosters) = <<>>

====
